---- MODULE Spec2Model ----
(***************************************************************************)
(* A model of gode-stats: the XP calculator (package xp), the error        *)
(* taxonomy (package godestats) and the API client (package client).       *)
(*                                                                         *)
(* Numbers.  TLC's integers are 32 bits wide, so the calculator is         *)
(* modelled for xp < 2^31 (levels up to 1158).  On that range the float64  *)
(* arithmetic of the source is exact: float64(level)/0.025 rounds to       *)
(* 40*level (the double nearest 0.025 is 0.025*(1+2^-54), and the quotient *)
(* lies within half an ulp of 40*level), math.Pow(x, 2) is the correctly   *)
(* rounded square and 1600*level^2 < 2^53 is representable, and            *)
(* floor(0.025*sqrt(xp)) equals floor(isqrt(xp)/40) at every threshold     *)
(* 1600*L^2 - 1, 1600*L^2 (and, being monotone in xp, everywhere between). *)
(* The model therefore computes with the integer 40 == 1/LevelFactor.      *)
(***************************************************************************)
EXTENDS Integers, Sequences, FiniteSets, TLC

VARIABLES
    callOp,     \* calculator: the method last called ("none" before any)
    callArg,    \* calculator: its argument
    callRet,    \* calculator: its result (an integer, or <<num, den>>)
    client,     \* the Client: [baseURL, apiToken], fixed at construction
    now,        \* the wall clock, in ticks
    calls,      \* per caller: the call it is in, and how it returned
    wire        \* the outbound HTTP requests issued so far

calcVars == <<callOp, callArg, callRet>>
clientVars == <<client, now, calls, wire>>
vars == <<callOp, callArg, callRet, client, now, calls, wire>>

----------------------------------------------------------------------------
(* Bounds of the model.                                                    *)

\* Levels 0..MaxLevel are given to GetXpForLevel.
MaxLevel == 1000
\* Every xp in -DenseXp..DenseXp is given to the calculator, besides the
\* xp around each level threshold.
DenseXp == 40
\* The clock runs from 0 to MaxNow ticks.
MaxNow == 1
\* Ticks in a day: the resolution of the clock.
TicksPerDay == 2
\* At most MaxWire distinct requests are issued in a run.
MaxWire == 2

----------------------------------------------------------------------------
(* package xp: the calculator                                              *)

\* 1 / LevelFactor, LevelFactor = 0.025
LevelFactorInv == 40

\* math.Floor(a / b) and math.Ceil(a / b) for b > 0
Floor(a, b) == a \div b
Ceil(a, b) == -((-a) \div b)

\* the largest r in lo..hi with r * r <= x (hi * hi does not overflow)
RECURSIVE SqrtSearch(_, _, _)
SqrtSearch(lo, hi, x) ==
    IF lo >= hi THEN lo
    ELSE LET mid == (lo + hi + 1) \div 2
         IN  IF mid * mid <= x THEN SqrtSearch(mid, hi, x)
                               ELSE SqrtSearch(lo, mid - 1, x)

\* floor(math.Sqrt(x)) for 0 <= x < 2^31
SqrtFloor(x) == SqrtSearch(0, 46340, x)

\* floor(LevelFactor * sqrt(xp)): sqrt(xp)/40 and floor(sqrt(xp))/40 have
\* the same floor.
GetLevel(xp) ==
    IF xp < 0 THEN 0
    ELSE Floor(SqrtFloor(xp), LevelFactorInv)

GetXpForLevelTruncated(level) ==
    IF level <= 0 THEN 0
    ELSE (level * LevelFactorInv) * (level * LevelFactorInv) - 1

\* ceil((level / LevelFactor)^2)
GetXpForLevel(level) ==
    IF level <= 0 THEN 0
    ELSE Ceil((level * LevelFactorInv) * (level * LevelFactorInv), 1)

\* A float64 in GetLevelPercentage is the ratio <<num, den>>, den > 0.
Zero == <<0, 1>>
One == <<1, 1>>

GetLevelPercentageUnclamped(xp) ==
    LET currentLevel == GetLevel(xp)
        currentLevelXP == GetXpForLevel(currentLevel)
        nextLevelXP == GetXpForLevel(currentLevel + 1)
    IN  <<xp - currentLevelXP, nextLevelXP - currentLevelXP>>

GetLevelPercentage(xp) ==
    IF xp < 0 THEN Zero
    ELSE
    LET currentLevel == GetLevel(xp)
        currentLevelXP == GetXpForLevel(currentLevel)
        nextLevelXP == GetXpForLevel(currentLevel + 1)
        xpInCurrentLevel == xp - currentLevelXP
        xpNeededForNextLevel == nextLevelXP - currentLevelXP
    IN  IF nextLevelXP <= currentLevelXP THEN One
        ELSE IF xpNeededForNextLevel = 0 THEN One
        ELSE IF xpInCurrentLevel < 0 THEN Zero
        ELSE IF xpInCurrentLevel > xpNeededForNextLevel THEN One
        ELSE <<xpInCurrentLevel, xpNeededForNextLevel>>

GetXpForNextLevel(xp) ==
    LET currentLevel == GetLevel(xp)
    IN  GetXpForLevel(currentLevel + 1)

\* The inputs of the calculator.
Levels == (-2) .. (MaxLevel + 1)
ThresholdXp(l) == (l * LevelFactorInv) * (l * LevelFactorInv)
XpInputs ==
    ((-DenseXp) .. DenseXp)
    \cup UNION { { ThresholdXp(l) - 1, ThresholdXp(l), ThresholdXp(l) + 1,
                   ThresholdXp(l) + (ThresholdXp(l + 1) - ThresholdXp(l)) \div 2 }
                 : l \in 0 .. (MaxLevel + 1) }

\* The calculator's interface is called once, on an argument drawn at the
\* start.
CalcInit ==
    /\ callOp = "none"
    /\ callArg \in XpInputs \cup Levels
    /\ callRet = 0

CallGetLevel ==
    /\ callOp = "none"
    /\ callArg \in XpInputs
    /\ callOp' = "GetLevel"
    /\ callRet' = GetLevel(callArg)
    /\ UNCHANGED callArg

CallGetLevelPercentage ==
    /\ callOp = "none"
    /\ callArg \in XpInputs
    /\ callOp' = "GetLevelPercentage"
    /\ callRet' = GetLevelPercentage(callArg)
    /\ UNCHANGED callArg

CallGetXpForLevel ==
    /\ callOp = "none"
    /\ callArg \in Levels
    /\ callOp' = "GetXpForLevel"
    /\ callRet' = GetXpForLevel(callArg)
    /\ UNCHANGED callArg

CallGetXpForNextLevel ==
    /\ callOp = "none"
    /\ callArg \in XpInputs
    /\ callOp' = "GetXpForNextLevel"
    /\ callRet' = GetXpForNextLevel(callArg)
    /\ UNCHANGED callArg

----------------------------------------------------------------------------
(* float64 and int beyond TLC's integers.                                  *)
(*                                                                         *)
(* A natural number of any size is the sequence of its 15-bit limbs, least *)
(* significant first, without leading zero limbs (0 is <<>>).  An int is a *)
(* sign and a magnitude, a float64 a sign, a significand m and an exponent *)
(* e: the value m * 2^e, m < 2^53 after rounding.  Every operation         *)
(* computes the exact result and rounds it to 53 bits, to nearest, ties to *)
(* even, as IEEE 754 does; the exponents met here are far from the ends of *)
(* the float64 range, and the ints stay below 2^63.                        *)

\* An operation computes an operand once, before it uses it: it is
\* written CHOOSE only \in { e(v) : v \in {x} } : TRUE, which is e(x).

LimbBits == 15
Base == 2 ^ LimbBits
\* the bits of a float64 significand
MantBits == 53

RECURSIVE BigNorm(_)
BigNorm(a) ==
    IF a = <<>> THEN a
    ELSE IF a[Len(a)] = 0 THEN BigNorm(SubSeq(a, 1, Len(a) - 1))
    ELSE a

\* the natural number n of TLC as limbs
RECURSIVE BigOf(_)
BigOf(n) == IF n = 0 THEN <<>> ELSE <<n % Base>> \o BigOf(n \div Base)

Limb(a, i) == IF i <= Len(a) THEN a[i] ELSE 0

RECURSIVE BigAddFrom(_, _, _, _)
BigAddFrom(a, b, i, carry) ==
    IF i > Len(a) /\ i > Len(b)
    THEN IF carry = 0 THEN <<>> ELSE <<carry>>
    ELSE LET s == Limb(a, i) + Limb(b, i) + carry
         IN  <<s % Base>> \o BigAddFrom(a, b, i + 1, s \div Base)

BigAdd(a, b) == BigNorm(BigAddFrom(a, b, 1, 0))

RECURSIVE BigSubFrom(_, _, _, _)
BigSubFrom(a, b, i, borrow) ==
    IF i > Len(a) THEN <<>>
    ELSE LET d == Limb(a, i) - Limb(b, i) - borrow
         IN  IF d < 0 THEN <<d + Base>> \o BigSubFrom(a, b, i + 1, 1)
                      ELSE <<d>> \o BigSubFrom(a, b, i + 1, 0)

\* a - b for a >= b
BigSub(a, b) == BigNorm(BigSubFrom(a, b, 1, 0))

RECURSIVE BigCmpFrom(_, _, _)
BigCmpFrom(a, b, i) ==
    IF i = 0 THEN 0
    ELSE IF a[i] < b[i] THEN -1
    ELSE IF a[i] > b[i] THEN 1
    ELSE BigCmpFrom(a, b, i - 1)

\* -1, 0 or 1 as a < b, a = b or a > b
BigCmp(a, b) ==
    IF Len(a) < Len(b) THEN -1
    ELSE IF Len(a) > Len(b) THEN 1
    ELSE BigCmpFrom(a, b, Len(a))

RECURSIVE BigMulLimbFrom(_, _, _, _)
BigMulLimbFrom(a, d, i, carry) ==
    IF i > Len(a)
    THEN IF carry = 0 THEN <<>> ELSE <<carry>>
    ELSE LET p == a[i] * d + carry
         IN  <<p % Base>> \o BigMulLimbFrom(a, d, i + 1, p \div Base)

\* a * b, from limb j of b down: acc is a times the limbs of b above j
RECURSIVE BigMulFrom(_, _, _, _)
BigMulFrom(a, b, j, acc) ==
    IF j = 0 THEN acc
    ELSE (CHOOSE only \in { BigMulFrom(a, b, j - 1, v)
                : v \in { BigAddFrom(BigMulLimbFrom(a, b[j], 1, 0), <<0>> \o acc, 1, 0) } } : TRUE)

BigMul(a, b) == BigNorm(BigMulFrom(a, b, Len(b), <<>>))

\* a * 2^k
BigShl(a, k) ==
    BigNorm([i \in 1 .. (k \div LimbBits) |-> 0]
            \o BigMulLimbFrom(a, 2 ^ (k % LimbBits), 1, 0))

\* floor(a / 2^k)
BigShr(a, k) ==
    LET n == k \div LimbBits
        r == k % LimbBits
    IN  IF n >= Len(a) THEN <<>>
        ELSE BigNorm([i \in 1 .. (Len(a) - n) |->
                        (a[i + n] \div (2 ^ r))
                        + (Limb(a, i + n + 1) % (2 ^ r)) * (2 ^ (LimbBits - r))])

RECURSIVE LimbLen(_)
LimbLen(n) == IF n = 0 THEN 0 ELSE 1 + LimbLen(n \div 2)

\* the number of bits of a
BitLen(a) ==
    IF a = <<>> THEN 0 ELSE (Len(a) - 1) * LimbBits + LimbLen(a[Len(a)])

\* bit i of a, bit 0 the least significant
Bit(a, i) == (Limb(a, i \div LimbBits + 1) \div (2 ^ (i % LimbBits))) % 2

\* the largest d <= est with d * b <= r
RECURSIVE QuotientLimb(_, _, _)
QuotientLimb(r, b, est) ==
    IF BigCmp(BigNorm(BigMulLimbFrom(b, est, 1, 0)), r) <= 0 THEN est
    ELSE QuotientLimb(r, b, est - 1)

\* One step of the long division by b, whose top limb is Base / 2 or more:
\* qr is the quotient and the remainder so far, limb the next limb of the
\* dividend.  The two top limbs of the remainder divided by the top limb
\* of b are the next limb of the quotient, or a little more.
DivModStep(b, limb, qr) ==
    LET r2 == BigNorm(<<limb>> \o qr[2])
        top == Limb(r2, Len(b) + 1) * Base + Limb(r2, Len(b))
        est == IF top \div b[Len(b)] >= Base THEN Base - 1 ELSE top \div b[Len(b)]
        d == QuotientLimb(r2, b, est)
    IN  <<BigNorm(<<d>> \o qr[1]), BigSub(r2, BigNorm(BigMulLimbFrom(b, d, 1, 0)))>>

RECURSIVE BigDivModFrom(_, _, _, _)
BigDivModFrom(a, b, i, qr) ==
    IF i = 0 THEN qr
    ELSE (CHOOSE only \in { BigDivModFrom(a, b, i - 1, v) : v \in { DivModStep(b, a[i], qr) } } : TRUE)

\* The long division of a by b from limb i of a down, qr being the
\* quotient and the remainder of the limbs above i.
DivModLimbs(a, b) ==
    IF Len(a) < Len(b) THEN <<<<>>, a>>
    ELSE BigDivModFrom(a, b, Len(a) - Len(b) + 1,
                       <<<<>>, SubSeq(a, Len(a) - Len(b) + 2, Len(a))>>)

\* <<floor(a / b), a mod b>> for b > 0: both are shifted until the top
\* limb of b is Base / 2 or more, which leaves the quotient as it is
BigDivMod(a, b) ==
    (CHOOSE only \in { (CHOOSE only \in { <<qr[1], BigShr(qr[2], s)>>
                  : qr \in { DivModLimbs(BigShl(a, s), BigShl(b, s)) } } : TRUE)
           : s \in { LimbBits - LimbLen(b[Len(b)]) } } : TRUE)

\* floor(sqrt(n)) by Newton's iteration from x >= floor(sqrt(n)), x > 0
RECURSIVE BigSqrtFrom(_, _)
BigSqrtFrom(n, x) ==
    (CHOOSE only \in { (CHOOSE only \in { IF BigCmp(y, x) >= 0 THEN x
                                          ELSE BigSqrtFrom(n, y)
                                          : y \in { BigShr(BigAdd(x, q), 1) } } : TRUE)
                      : q \in { BigDivMod(n, x)[1] } } : TRUE)

\* The iteration starts above the root: n < (top + 1) * Base^(2 * k) for
\* top the one or two top limbs of n, so the root is below
\* (floor(sqrt(top)) + 1) * Base^k.
BigSqrt(n) ==
    IF n = <<>> THEN <<>>
    ELSE LET k == (Len(n) - 1) \div 2
             top == Limb(n, 2 * k + 2) * Base + n[2 * k + 1]
         IN  BigSqrtFrom(n, [i \in 1 .. k |-> 0] \o BigOf(SqrtSearch(0, Base - 1, top) + 1))

\* a / 2^k rounded to the nearest integer, ties to even (k > 0)
RoundShift(a, k) ==
    LET q == BigShr(a, k)
        rest == BigSub(a, BigShl(q, k))
        half == BigCmp(rest, BigShl(<<1>>, k - 1))
    IN  IF half > 0 \/ (half = 0 /\ Bit(q, 0) = 1) THEN BigAdd(q, <<1>>) ELSE q

\* (-1)^neg * n * 2^e rounded to MantBits bits
Round(neg, n, e) ==
    LET k == BitLen(n) - MantBits
    IN  IF k <= 0 THEN [neg |-> neg, m |-> n, e |-> e]
        ELSE [neg |-> neg, m |-> RoundShift(n, k), e |-> e + k]

\* the float64 nearest to (-1)^neg * n * 2^e
F64(neg, n, e) == (CHOOSE only \in { Round(neg, v, e) : v \in {n} } : TRUE)

\* an int: sign and magnitude (0 is not negative)
Int64(neg, mag) == [neg |-> neg /\ mag # <<>>, mag |-> mag]
\* the int n of TLC
Int64Of(n) == IF n < 0 THEN Int64(TRUE, BigOf(-n)) ELSE Int64(FALSE, BigOf(n))

\* a - b
Int64Sub(a, b) ==
    IF a.neg # b.neg THEN Int64(a.neg, BigAdd(a.mag, b.mag))
    ELSE IF BigCmp(a.mag, b.mag) >= 0 THEN Int64(a.neg, BigSub(a.mag, b.mag))
    ELSE Int64(~a.neg, BigSub(b.mag, a.mag))

\* a + b
Int64Add(a, b) == Int64Sub(a, Int64(~b.neg, b.mag))

\* a < b
Int64Less(a, b) == Int64Sub(a, b).neg

\* float64(i)
Float64(i) == F64(i.neg, i.mag, 0)

\* x * y
F64Mul(x, y) ==
    (CHOOSE only \in { F64(a.neg # b.neg, BigMul(a.m, b.m), a.e + b.e) : a \in {x}, b \in {y} } : TRUE)

\* a / b for b # 0: the quotient to 4 limbs, which are 55 bits or more,
\* and one more bit that says whether anything is left
Quotient(a, b) ==
    LET k == IF BitLen(a.m) >= BitLen(b.m) + 4 * LimbBits THEN 0
             ELSE BitLen(b.m) + 4 * LimbBits - BitLen(a.m)
    IN  IF a.m = <<>> THEN F64(a.neg # b.neg, <<>>, 0)
        ELSE (CHOOSE only \in { F64(a.neg # b.neg,
                        BigAdd(BigAdd(qr[1], qr[1]), IF qr[2] = <<>> THEN <<>> ELSE <<1>>),
                        a.e - b.e - k - 1)
                    : qr \in { BigDivMod(BigShl(a.m, k), b.m) } } : TRUE)

\* x / y
F64Div(x, y) == (CHOOSE only \in { Quotient(a, b) : a \in {x}, b \in {y} } : TRUE)

\* the root of a >= 0 to 4 limbs, which are 54 bits or more, and one more
\* bit that says whether anything is left
Root(a) ==
    LET k0 == IF BitLen(a.m) >= 8 * LimbBits - 1 THEN 0
              ELSE 8 * LimbBits - 1 - BitLen(a.m)
        k == IF (a.e - k0) % 2 = 0 THEN k0 ELSE k0 + 1
    IN  IF a.m = <<>> THEN a
        ELSE (CHOOSE only \in { F64(FALSE,
                        BigAdd(BigAdd(r, r), IF BigMul(r, r) = n THEN <<>> ELSE <<1>>),
                        (a.e - k) \div 2 - 1)
                    : n \in { BigShl(a.m, k) }, r \in { BigSqrt(BigShl(a.m, k)) } } : TRUE)

\* math.Sqrt(x)
F64Sqrt(x) == (CHOOSE only \in { Root(a) : a \in {x} } : TRUE)

\* math.Floor(x) and math.Ceil(x) for x >= 0, converted to int
F64Floor(x) ==
    (CHOOSE only \in { IF a.e >= 0 THEN Int64(FALSE, BigShl(a.m, a.e))
           ELSE Int64(FALSE, BigShr(a.m, -a.e)) : a \in {x} } : TRUE)
F64Ceil(x) ==
    (CHOOSE only \in { IF a.e < 0 /\ BigShl(floor.mag, -a.e) # a.m
           THEN Int64(FALSE, BigAdd(floor.mag, <<1>>))
           ELSE floor : a \in {x}, floor \in { F64Floor(x) } } : TRUE)

\* x < y
F64Less(x, y) ==
    LET d == IF x.e <= y.e THEN 0 ELSE x.e - y.e
        u == IF y.e <= x.e THEN 0 ELSE y.e - x.e
    IN  Int64Less(Int64(x.neg, BigShl(x.m, d)), Int64(y.neg, BigShl(y.m, u)))

(* The calculator as the code computes it, in float64.                     *)

\* LevelFactor converted to float64: the float64 nearest to 0.025 = 1/40
LevelFactorF64 ==
    F64Div(Float64(Int64Of(1)), Float64(Int64Of(LevelFactorInv)))

ZeroF64 == F64(FALSE, <<>>, 0)
OneF64 == Float64(Int64Of(1))

\* int(math.Floor(LevelFactor * math.Sqrt(float64(xp))))
GetLevelF64(xp) ==
    IF xp.neg THEN Int64Of(0)
    ELSE F64Floor(F64Mul(LevelFactorF64, F64Sqrt(Float64(xp))))

\* int(math.Ceil(math.Pow(levelFloat/LevelFactor, 2))); math.Pow(x, 2) is
\* one multiplication of x by itself, rounded once
GetXpForLevelF64(level) ==
    IF level.neg \/ level.mag = <<>> THEN Int64Of(0)
    ELSE LET levelFloat == Float64(level)
             quotient == F64Div(levelFloat, LevelFactorF64)
             xpFloat == F64Mul(quotient, quotient)
         IN  F64Ceil(xpFloat)

\* GetLevelPercentage from the two thresholds on
Percentage(xp, currentLevelXP, nextLevelXP) ==
    LET xpInCurrentLevel == Int64Sub(xp, currentLevelXP)
        xpNeededForNextLevel == Int64Sub(nextLevelXP, currentLevelXP)
        percentage == F64Div(Float64(xpInCurrentLevel), Float64(xpNeededForNextLevel))
    IN  IF ~Int64Less(currentLevelXP, nextLevelXP) THEN OneF64
        ELSE IF xpNeededForNextLevel = Int64Of(0) THEN OneF64
        ELSE (CHOOSE only \in { IF F64Less(p, ZeroF64) THEN ZeroF64
                    ELSE IF F64Less(OneF64, p) THEN OneF64
                    ELSE p : p \in {percentage} } : TRUE)

GetLevelPercentageF64(xp) ==
    IF xp.neg THEN ZeroF64
    ELSE (CHOOSE only \in { (CHOOSE only \in { Percentage(xp, currentLevelXP, nextLevelXP)
                       : currentLevelXP \in { GetXpForLevelF64(currentLevel) },
                         nextLevelXP \in { GetXpForLevelF64(Int64Add(currentLevel,
                                                                      Int64Of(1))) } } : TRUE)
                : currentLevel \in { GetLevelF64(xp) } } : TRUE)

GetXpForNextLevelF64(xp) ==
    LET currentLevel == GetLevelF64(xp)
    IN  GetXpForLevelF64(Int64Add(currentLevel, Int64Of(1)))

\* The inputs: the levels 1 .. WideLow and WideFrom .. WideFrom + WideSpan,
\* the levels up to 0, and the xp at, below and above their thresholds.
WideLow == 3
WideFrom == 1258289
WideSpan == 5
WideLevelNumbers ==
    ((-1) .. WideLow) \cup (WideFrom .. (WideFrom + WideSpan))
WideLevels == { Int64Of(l) : l \in WideLevelNumbers }
\* (level / LevelFactor)^2 = 1600 * level^2, exactly
WideThresholdXp(l) ==
    Int64(FALSE, BigMul(BigOf(l * LevelFactorInv), BigOf(l * LevelFactorInv)))
WideXpInputs ==
    { Int64Of(-1) }
    \cup UNION { { Int64Sub(WideThresholdXp(l), Int64Of(1)),
                   WideThresholdXp(l),
                   Int64Add(WideThresholdXp(l), Int64Of(1)) }
                 : l \in WideLevelNumbers \ {-1, 0} }
    \cup { Int64Of(0) }

WideCalcInit ==
    /\ callOp = "none"
    /\ callArg \in WideXpInputs \cup WideLevels
    /\ callRet = Int64Of(0)

CallGetLevelF64 ==
    /\ callOp = "none"
    /\ callArg \in WideXpInputs
    /\ callOp' = "GetLevel"
    /\ callRet' = GetLevelF64(callArg)
    /\ UNCHANGED callArg

CallGetLevelPercentageF64 ==
    /\ callOp = "none"
    /\ callArg \in WideXpInputs
    /\ callOp' = "GetLevelPercentage"
    /\ callRet' = GetLevelPercentageF64(callArg)
    /\ UNCHANGED callArg

CallGetXpForLevelF64 ==
    /\ callOp = "none"
    /\ callArg \in WideLevels
    /\ callOp' = "GetXpForLevel"
    /\ callRet' = GetXpForLevelF64(callArg)
    /\ UNCHANGED callArg

CallGetXpForNextLevelF64 ==
    /\ callOp = "none"
    /\ callArg \in WideXpInputs
    /\ callOp' = "GetXpForNextLevel"
    /\ callRet' = GetXpForNextLevelF64(callArg)
    /\ UNCHANGED callArg

----------------------------------------------------------------------------
(* package godestats: the error taxonomy                                   *)
(*                                                                         *)
(* An error value is the chain errors.Unwrap walks: a sequence of nodes,   *)
(* outermost first; nil is the empty chain.  A node made by errors.New is  *)
(* identified by id (Go compares the pointers, not the text).              *)

nil == <<>>

ErrorsNew(id, text) == <<[type |-> "errorString", id |-> id, msg |-> text]>>

ErrUserNotFound ==
    ErrorsNew("ErrUserNotFound", "user not found or profile is private")
ErrUnauthorized ==
    ErrorsNew("ErrUnauthorized", "unauthorized: API token is missing or invalid")
ErrPulseTimestampTooOld ==
    ErrorsNew("ErrPulseTimestampTooOld",
              "pulse timestamp is older than a week and will be rejected")
ErrEmptyUsername == ErrorsNew("ErrEmptyUsername", "username cannot be empty")
ErrNetworkError == ErrorsNew("ErrNetworkError", "network error")
ErrInvalidResponse == ErrorsNew("ErrInvalidResponse", "invalid response from API")
ErrRateLimited == ErrorsNew("ErrRateLimited", "API rate limit exceeded")

\* net/http status codes the library names
StatusOK == 200
StatusCreated == 201
StatusUnauthorized == 401
StatusNotFound == 404
StatusTooManyRequests == 429
\* the least status APIError.IsTemporary takes for a server failure
StatusServerError == 500

NewAPIError(statusCode, message, endpoint) ==
    <<[type |-> "APIError", StatusCode |-> statusCode, Message |-> message,
       Endpoint |-> endpoint]>>

\* The node holds Operation and URL; the rest of the chain is Err.
NewNetworkError(operation, url, err) ==
    <<[type |-> "NetworkError", Operation |-> operation, URL |-> url]>> \o err

\* fmt.Errorf with one %w verb: text is the formatted message, err the
\* operand of %w.
Errorf(text, err) == <<[type |-> "wrapError", msg |-> text]>> \o err

\* strings.Contains
Contains(s, substr) ==
    \E i \in 1 .. (Len(s) - Len(substr) + 1) :
        SubSeq(s, i, i + Len(substr) - 1) = substr

\* err.Error()
RECURSIVE ErrorText(_)
ErrorText(err) ==
    IF err = nil THEN "<nil>"
    ELSE LET e == Head(err)
         IN  CASE e.type = "APIError" ->
                    IF e.Endpoint # ""
                    THEN "API error " \o ToString(e.StatusCode) \o " at "
                         \o e.Endpoint \o ": " \o e.Message
                    ELSE "API error " \o ToString(e.StatusCode) \o ": " \o e.Message
              [] e.type = "NetworkError" ->
                    IF e.URL # ""
                    THEN "network error during " \o e.Operation \o " to " \o e.URL
                         \o ": " \o ErrorText(Tail(err))
                    ELSE "network error during " \o e.Operation
                         \o ": " \o ErrorText(Tail(err))
              [] OTHER -> e.msg

\* (*APIError).IsTemporary, of the APIError node e
APIErrorIsTemporaryAbove(e) ==
    e.StatusCode > StatusServerError \/ e.StatusCode = StatusTooManyRequests

APIErrorIsTemporary(e) ==
    e.StatusCode >= StatusServerError \/ e.StatusCode = StatusTooManyRequests

\* (*NetworkError).IsTemporary, of the chain netErr that starts at the
\* NetworkError node
NetworkErrorIsTemporary(netErr) ==
    IF Tail(netErr) = nil THEN FALSE
    ELSE LET errMsg == ErrorText(Tail(netErr))
         IN  \/ Contains(errMsg, "timeout")
             \/ Contains(errMsg, "connection refused")
             \/ Contains(errMsg, "no such host")
             \/ Contains(errMsg, "network is unreachable")
             \/ Contains(errMsg, "connection reset")

\* errors.Is(err, target), target one of the sentinels
ErrorsIs(err, target) == \E i \in 1 .. Len(err) : err[i] = target[1]

\* errors.As(err, &x) for x of type `type`: the chain from the first node of
\* that type on, nil when there is none
ErrorsAs(err, type) ==
    IF \E i \in 1 .. Len(err) : err[i].type = type
    THEN LET i == CHOOSE j \in 1 .. Len(err) :
                      /\ err[j].type = type
                      /\ \A k \in 1 .. (j - 1) : err[k].type # type
         IN  SubSeq(err, i, Len(err))
    ELSE nil

IsUserNotFoundStatusOnly(err) ==
    IF err = nil THEN FALSE
    ELSE LET apiErr == ErrorsAs(err, "APIError")
         IN  IF apiErr # nil THEN Head(apiErr).StatusCode = StatusNotFound
             ELSE FALSE

IsUserNotFound(err) ==
    IF err = nil THEN FALSE
    ELSE IF ErrorsIs(err, ErrUserNotFound) THEN TRUE
    ELSE LET apiErr == ErrorsAs(err, "APIError")
         IN  IF apiErr # nil THEN Head(apiErr).StatusCode = StatusNotFound
             ELSE FALSE

IsUnauthorizedForbidden(err) ==
    IF err = nil THEN FALSE
    ELSE IF ErrorsIs(err, ErrUnauthorized) THEN TRUE
    ELSE LET apiErr == ErrorsAs(err, "APIError")
         IN  IF apiErr # nil THEN Head(apiErr).StatusCode = 403
             ELSE FALSE

IsUnauthorized(err) ==
    IF err = nil THEN FALSE
    ELSE IF ErrorsIs(err, ErrUnauthorized) THEN TRUE
    ELSE LET apiErr == ErrorsAs(err, "APIError")
         IN  IF apiErr # nil THEN Head(apiErr).StatusCode = StatusUnauthorized
             ELSE FALSE

IsTemporary(err) ==
    IF err = nil THEN FALSE
    ELSE LET apiErr == ErrorsAs(err, "APIError")
             netErr == ErrorsAs(err, "NetworkError")
         IN  IF apiErr # nil THEN APIErrorIsTemporary(Head(apiErr))
             ELSE IF netErr # nil THEN NetworkErrorIsTemporary(netErr)
             ELSE FALSE

IsRateLimited(err) ==
    IF err = nil THEN FALSE
    ELSE IF ErrorsIs(err, ErrRateLimited) THEN TRUE
    ELSE LET apiErr == ErrorsAs(err, "APIError")
         IN  IF apiErr # nil THEN Head(apiErr).StatusCode = StatusTooManyRequests
             ELSE FALSE

IsNetworkErrorTemporaryOnly(err) ==
    IF err = nil THEN FALSE
    ELSE IF ErrorsIs(err, ErrNetworkError) THEN TRUE
    ELSE LET netErr == ErrorsAs(err, "NetworkError")
         IN  netErr # nil /\ NetworkErrorIsTemporary(netErr)

IsNetworkError(err) ==
    IF err = nil THEN FALSE
    ELSE IF ErrorsIs(err, ErrNetworkError) THEN TRUE
    ELSE ErrorsAs(err, "NetworkError") # nil

----------------------------------------------------------------------------
(* package client: the Client                                              *)

DefaultBaseURL == "https://codestats.net"
APIPrefix == "/api"
AuthHeader == "X-API-Token"
UserAgent == "gode-stats/1.0.0"

\* the days SendPulse looks back
PulseMaxAgeDays == 7

NewWithBaseURL(apiToken, baseURL) == [baseURL |-> baseURL, apiToken |-> apiToken]
New(apiToken) == NewWithBaseURL(apiToken, DefaultBaseURL)
NewAnonymous == NewWithBaseURL("", DefaultBaseURL)

\* t.AddDate(0, 0, days), in a location whose days all have 24 hours
AddDate(t, days) == t + days * TicksPerDay

\* url.PathEscape, on the characters the usernames of the model contain:
\* letters stay, the others become %XX.
EscapeChar(c) ==
    CASE c = " " -> "%20"
      [] c = "/" -> "%2F"
      [] c = "?" -> "%3F"
      [] c = "%" -> "%25"
      [] OTHER -> c

RECURSIVE PathEscape(_)
PathEscape(s) ==
    IF s = "" THEN ""
    ELSE EscapeChar(SubSeq(s, 1, 1)) \o PathEscape(SubSeq(s, 2, Len(s)))

\* http.NewRequestWithContext (with a non-nil context) fails when url.Parse
\* does: of the URLs of the model, for the one with no scheme before ":".
NewRequestError(method, endpoint) ==
    IF SubSeq(endpoint, 1, 1) = ":"
    THEN <<[type |-> "urlError",
            msg |-> "parse \"" \o endpoint \o "\": missing protocol scheme"]>>
    ELSE nil

\* An HTTP response body: its text, and what encoding/json makes of it.
\* object: the text is a JSON object; error, user, total_xp: its fields of
\* these names ("" and 0 when absent, as Go decodes them).
Body(raw, object, error, user, total_xp) ==
    [raw |-> raw, object |-> object, error |-> error, user |-> user,
     total_xp |-> total_xp]

\* json.Unmarshal(body, &errorResp): <<err = nil, errorResp.Error>>
UnmarshalErrorResp(body) ==
    IF body.object THEN <<TRUE, body.error>> ELSE <<FALSE, "">>

ErrorMessageRawOnly(body) == body.raw

\* the message of an APIError made from a response body
ErrorMessage(body) ==
    LET parsed == UnmarshalErrorResp(body)
    IN  IF parsed[1] /\ parsed[2] # "" THEN parsed[2] ELSE body.raw

\* What a call returns: the profile pointer (<<>> is nil) and the error.
Return(profile, err) == [profile |-> profile, err |-> err]

\* GetUserProfile: the checks before any request; nil lets the call go on.
GetUserProfileNoCheck(username) == nil

GetUserProfileValidate(username) ==
    IF username = "" THEN ErrEmptyUsername ELSE nil

GetUserProfileEndpoint(c, username) ==
    c.baseURL \o APIPrefix \o "/users/" \o PathEscape(username)

\* GetUserProfile from the response on: resp = [StatusCode, Body].
GetUserProfileResponseFixedStatus(resp, endpoint) ==
    IF resp.StatusCode = StatusNotFound THEN Return(<<>>, ErrUserNotFound)
    ELSE IF resp.StatusCode = StatusUnauthorized THEN Return(<<>>, ErrUnauthorized)
    ELSE IF resp.StatusCode = StatusTooManyRequests THEN Return(<<>>, ErrRateLimited)
    ELSE IF resp.StatusCode # StatusOK
    THEN Return(<<>>, NewAPIError(StatusServerError, ErrorMessage(resp.Body), endpoint))
    ELSE IF ~resp.Body.object
    THEN Return(<<>>, Errorf(ErrorText(ErrInvalidResponse) \o ": invalid character",
                             ErrInvalidResponse))
    ELSE Return(<<[User |-> resp.Body.user, TotalXP |-> resp.Body.total_xp]>>, nil)

GetUserProfileResponse(resp, endpoint) ==
    IF resp.StatusCode = StatusNotFound THEN Return(<<>>, ErrUserNotFound)
    ELSE IF resp.StatusCode = StatusUnauthorized THEN Return(<<>>, ErrUnauthorized)
    ELSE IF resp.StatusCode = StatusTooManyRequests THEN Return(<<>>, ErrRateLimited)
    ELSE IF resp.StatusCode # StatusOK
    THEN Return(<<>>, NewAPIError(resp.StatusCode, ErrorMessage(resp.Body), endpoint))
    ELSE IF ~resp.Body.object
    THEN Return(<<>>, Errorf(ErrorText(ErrInvalidResponse) \o ": invalid character",
                             ErrInvalidResponse))
    ELSE Return(<<[User |-> resp.Body.user, TotalXP |-> resp.Body.total_xp]>>, nil)

\* SendPulse: the checks before any request, at instant t; nil lets the
\* call go on.
SendPulseValidateTimestampFirst(c, pulse, t) ==
    LET weekAgo == AddDate(t, -PulseMaxAgeDays)
    IN  IF pulse.CodedAt < weekAgo THEN ErrPulseTimestampTooOld
        ELSE IF c.apiToken = "" THEN ErrUnauthorized
        ELSE nil

SendPulseValidateNotAfter(c, pulse, t) ==
    LET weekAgo == AddDate(t, -PulseMaxAgeDays)
    IN  IF c.apiToken = "" THEN ErrUnauthorized
        ELSE IF pulse.CodedAt <= weekAgo THEN ErrPulseTimestampTooOld
        ELSE nil

SendPulseValidate(c, pulse, t) ==
    LET weekAgo == AddDate(t, -PulseMaxAgeDays)
    IN  IF c.apiToken = "" THEN ErrUnauthorized
        ELSE IF pulse.CodedAt < weekAgo THEN ErrPulseTimestampTooOld
        ELSE nil

SendPulseEndpoint(c) == c.baseURL \o APIPrefix \o "/my/pulses"

\* SendPulse from the response on.
SendPulseResponseAny2xx(resp, endpoint) ==
    IF resp.StatusCode \in {StatusOK, StatusCreated} THEN Return(<<>>, nil)
    ELSE IF resp.StatusCode = StatusUnauthorized THEN Return(<<>>, ErrUnauthorized)
    ELSE IF resp.StatusCode = StatusTooManyRequests THEN Return(<<>>, ErrRateLimited)
    ELSE Return(<<>>, NewAPIError(resp.StatusCode, ErrorMessage(resp.Body), endpoint))

SendPulseResponse(resp, endpoint) ==
    IF resp.StatusCode = StatusCreated THEN Return(<<>>, nil)
    ELSE IF resp.StatusCode = StatusUnauthorized THEN Return(<<>>, ErrUnauthorized)
    ELSE IF resp.StatusCode = StatusTooManyRequests THEN Return(<<>>, ErrRateLimited)
    ELSE Return(<<>>, NewAPIError(resp.StatusCode, ErrorMessage(resp.Body), endpoint))

----------------------------------------------------------------------------
(* The environment of the client: callers, inputs, the remote service.     *)

Callers == {"c1"}

Tokens == {"", "test-token"}
BaseURLs == {DefaultBaseURL, "http://127.0.0.1:8080", "://bad"}
Clients ==
    { New(t) : t \in Tokens } \cup { NewAnonymous }
    \cup { NewWithBaseURL(t, u) : t \in Tokens, u \in BaseURLs }

Usernames == {"", "al", "a/b"}

XPs == <<[Language |-> "Go", XP |-> 10]>>
Pulse(codedAt) == [CodedAt |-> codedAt, XPs |-> XPs]
\* the pulses a caller may send at instant t
Pulses(t) ==
    { Pulse(at) : at \in { AddDate(t, -(PulseMaxAgeDays + 1)),
                           AddDate(t, -PulseMaxAgeDays) - 1,
                           AddDate(t, -PulseMaxAgeDays),
                           t } }

Statuses ==
    { StatusOK, StatusCreated, 204, 400, StatusUnauthorized, StatusNotFound,
      StatusTooManyRequests, StatusServerError, 502, 503 }
Bodies ==
    { Body("{\"error\":\"boom\"}", TRUE, "boom", "", 0),
      Body("{\"error\":\"\"}", TRUE, "", "", 0),
      Body("{\"user\":\"al\",\"total_xp\":1600}", TRUE, "", "al", 1600),
      Body("Service Unavailable", FALSE, "", "", 0) }
Responses == { [StatusCode |-> st, Body |-> b] : st \in Statuses, b \in Bodies }

\* what http.Client.Do fails with: a *url.Error
TransportErrors ==
    { <<[type |-> "urlError", msg |-> m]>> :
        m \in { "dial tcp 127.0.0.1:8080: connect: connection refused",
                "context deadline exceeded (Client.Timeout exceeded while awaiting headers)",
                "EOF" } }

\* the headers GetUserProfile and SendPulse set
GetUserProfileHeader ==
    ("User-Agent" :> UserAgent) @@ ("Accept" :> "application/json")
SendPulseHeader(c) ==
    ("User-Agent" :> UserAgent) @@ ("Content-Type" :> "application/json")
    @@ ("Accept" :> "application/json") @@ (AuthHeader :> c.apiToken)

\* A request on the wire; body is the value serialized into it (<<>>: none).
Request(method, url, header, body) ==
    [method |-> method, url |-> url, header |-> header, body |-> body]

\* what a frame holds for resp before httpClient.Do has returned one
NoResponse == [StatusCode |-> 0, Body |-> Body("", FALSE, "", "", 0)]

\* The frame of a call: pc is "idle" (no call yet), "waiting" (the request
\* is out, httpClient.Do has not returned) or "done" (the call returned
\* ret); at is the instant of the call, sent counts the requests the call
\* issued, resp is the response httpClient.Do returned.
Frame(pc, op, username, pulse, at, endpoint, sent, ret) ==
    [pc |-> pc, op |-> op, username |-> username, pulse |-> pulse,
     at |-> at, endpoint |-> endpoint, sent |-> sent, resp |-> NoResponse,
     ret |-> ret]

Idle == Frame("idle", "none", "", Pulse(0), 0, "", 0, Return(<<>>, nil))

ClientInit ==
    /\ client \in Clients
    /\ now = 0
    /\ calls = [c \in Callers |-> Idle]
    /\ wire = {}

\* GetUserProfile, up to httpClient.Do
GetUserProfileCall(c, username) ==
    /\ calls[c].pc \in {"idle", "done"}
    /\ LET invalid == GetUserProfileValidate(username)
           endpoint == GetUserProfileEndpoint(client, username)
           reqErr == NewRequestError("GET", endpoint)
           req == Request("GET", endpoint, GetUserProfileHeader, <<>>)
       IN  IF invalid # nil
           THEN /\ calls' = [calls EXCEPT ![c] =
                       Frame("done", "GetUserProfile", username, Pulse(0), now, "", 0,
                             Return(<<>>, invalid))]
                /\ wire' = wire
           ELSE IF reqErr # nil
           THEN /\ calls' = [calls EXCEPT ![c] =
                       Frame("done", "GetUserProfile", username, Pulse(0), now, endpoint, 0,
                             Return(<<>>, Errorf("failed to create request: "
                                                 \o ErrorText(reqErr), reqErr)))]
                /\ wire' = wire
           ELSE /\ Cardinality(wire \cup {req}) <= MaxWire
                /\ calls' = [calls EXCEPT ![c] =
                       Frame("waiting", "GetUserProfile", username, Pulse(0), now, endpoint, 1,
                             Return(<<>>, nil))]
                /\ wire' = wire \cup {req}
    /\ UNCHANGED <<client, now>>

\* GetUserProfile, httpClient.Do fails
GetUserProfileTransportError(c, err) ==
    /\ calls[c].pc = "waiting"
    /\ calls[c].op = "GetUserProfile"
    /\ calls' = [calls EXCEPT ![c].pc = "done",
                              ![c].ret = Return(<<>>,
                                   NewNetworkError("GET request", calls[c].endpoint, err))]
    /\ UNCHANGED <<client, now, wire>>

GetUserProfileReturnRetrying(c, resp) ==
    /\ calls[c].pc = "waiting"
    /\ calls[c].op = "GetUserProfile"
    /\ IF resp.StatusCode >= StatusServerError /\ calls[c].sent < 2
       THEN calls' = [calls EXCEPT ![c].sent = calls[c].sent + 1]
       ELSE calls' = [calls EXCEPT
                        ![c].pc = "done",
                        ![c].resp = resp,
                        ![c].ret = GetUserProfileResponse(resp, calls[c].endpoint)]
    /\ UNCHANGED <<client, now, wire>>

\* GetUserProfile, httpClient.Do returns resp
GetUserProfileReturn(c, resp) ==
    /\ calls[c].pc = "waiting"
    /\ calls[c].op = "GetUserProfile"
    /\ calls' = [calls EXCEPT ![c].pc = "done",
                              ![c].resp = resp,
                              ![c].ret = GetUserProfileResponse(resp, calls[c].endpoint)]
    /\ UNCHANGED <<client, now, wire>>

SendPulseCallClearingToken(c, pulse) ==
    /\ calls[c].pc \in {"idle", "done"}
    /\ LET invalid == SendPulseValidate(client, pulse, now)
           endpoint == SendPulseEndpoint(client)
           req == Request("POST", endpoint, SendPulseHeader(client), pulse)
       IN  IF invalid # nil
           THEN /\ calls' = [calls EXCEPT ![c] =
                       Frame("done", "SendPulse", "", pulse, now, "", 0,
                             Return(<<>>, invalid))]
                /\ wire' = wire
           ELSE /\ Cardinality(wire \cup {req}) <= MaxWire
                /\ calls' = [calls EXCEPT ![c] =
                       Frame("waiting", "SendPulse", "", pulse, now, endpoint, 1,
                             Return(<<>>, nil))]
                /\ wire' = wire \cup {req}
    /\ client' = [client EXCEPT !.apiToken = ""]
    /\ UNCHANGED now

\* SendPulse, up to httpClient.Do
SendPulseCall(c, pulse) ==
    /\ calls[c].pc \in {"idle", "done"}
    /\ LET invalid == SendPulseValidate(client, pulse, now)
           endpoint == SendPulseEndpoint(client)
           reqErr == NewRequestError("POST", endpoint)
           req == Request("POST", endpoint, SendPulseHeader(client), pulse)
       IN  IF invalid # nil
           THEN /\ calls' = [calls EXCEPT ![c] =
                       Frame("done", "SendPulse", "", pulse, now, "", 0,
                             Return(<<>>, invalid))]
                /\ wire' = wire
           ELSE IF reqErr # nil
           THEN /\ calls' = [calls EXCEPT ![c] =
                       Frame("done", "SendPulse", "", pulse, now, endpoint, 0,
                             Return(<<>>, Errorf("failed to create request: "
                                                 \o ErrorText(reqErr), reqErr)))]
                /\ wire' = wire
           ELSE /\ Cardinality(wire \cup {req}) <= MaxWire
                /\ calls' = [calls EXCEPT ![c] =
                       Frame("waiting", "SendPulse", "", pulse, now, endpoint, 1,
                             Return(<<>>, nil))]
                /\ wire' = wire \cup {req}
    /\ UNCHANGED <<client, now>>

\* SendPulse, httpClient.Do fails
SendPulseTransportError(c, err) ==
    /\ calls[c].pc = "waiting"
    /\ calls[c].op = "SendPulse"
    /\ calls' = [calls EXCEPT ![c].pc = "done",
                              ![c].ret = Return(<<>>,
                                   NewNetworkError("POST request", calls[c].endpoint, err))]
    /\ UNCHANGED <<client, now, wire>>

\* SendPulse, httpClient.Do returns resp
SendPulseReturn(c, resp) ==
    /\ calls[c].pc = "waiting"
    /\ calls[c].op = "SendPulse"
    /\ calls' = [calls EXCEPT ![c].pc = "done",
                              ![c].resp = resp,
                              ![c].ret = SendPulseResponse(resp, calls[c].endpoint)]
    /\ UNCHANGED <<client, now, wire>>

\* time passes
Tick ==
    /\ now < MaxNow
    /\ now' = now + 1
    /\ UNCHANGED <<client, calls, wire>>

----------------------------------------------------------------------------
(* The specifications: Spec is the client with its callers and the remote  *)
(* service, CalcSpec the calculator applied to its inputs.                 *)

Init ==
    /\ ClientInit
    /\ callOp = "none"
    /\ callArg = 0
    /\ callRet = 0

Next ==
    \/ \E c \in DOMAIN calls, username \in Usernames :
           GetUserProfileCall(c, username) /\ UNCHANGED calcVars
    \/ \E c \in DOMAIN calls, err \in TransportErrors :
           GetUserProfileTransportError(c, err) /\ UNCHANGED calcVars
    \/ \E c \in DOMAIN calls, resp \in Responses :
           GetUserProfileReturn(c, resp) /\ UNCHANGED calcVars
    \/ \E c \in DOMAIN calls, pulse \in Pulses(now) :
           SendPulseCall(c, pulse) /\ UNCHANGED calcVars
    \/ \E c \in DOMAIN calls, err \in TransportErrors :
           SendPulseTransportError(c, err) /\ UNCHANGED calcVars
    \/ \E c \in DOMAIN calls, resp \in Responses :
           SendPulseReturn(c, resp) /\ UNCHANGED calcVars
    \/ Tick /\ UNCHANGED calcVars

Spec == Init /\ [][Next]_vars

CalcSpecInit ==
    /\ CalcInit
    /\ client = NewAnonymous
    /\ now = 0
    /\ calls = [c \in Callers |-> Idle]
    /\ wire = {}

CalcNext ==
    \/ CallGetLevel /\ UNCHANGED clientVars
    \/ CallGetLevelPercentage /\ UNCHANGED clientVars
    \/ CallGetXpForLevel /\ UNCHANGED clientVars
    \/ CallGetXpForNextLevel /\ UNCHANGED clientVars

CalcSpec == CalcSpecInit /\ [][CalcNext]_vars

(* The error taxonomy applied to error values: ErrSpec draws an error and  *)
(* applies one of the classification helpers to it.                        *)

\* The errors a caller may classify: nil, the sentinels, other errors.New
\* values, APIErrors, NetworkErrors around each of these, and fmt.Errorf
\* wrappers around all of them.
ErrorLeaves ==
    { nil, ErrUserNotFound, ErrUnauthorized, ErrPulseTimestampTooOld,
      ErrEmptyUsername, ErrNetworkError, ErrInvalidResponse, ErrRateLimited,
      ErrorsNew("random", "random error"), ErrorsNew("timeout", "timeout") }
    \cup { NewAPIError(st, m, "") :
             st \in { 400, StatusUnauthorized, StatusNotFound, StatusTooManyRequests,
                      StatusServerError, 503 },
             m \in { "Server error", "connection reset" } }
ErrorNetworkErrors == { NewNetworkError("GET", "", e) : e \in ErrorLeaves }
ErrorWrappers ==
    { Errorf("lookup failed: " \o ErrorText(e), e) :
        e \in (ErrorLeaves \cup ErrorNetworkErrors) \ {nil} }
ErrorValues == ErrorLeaves \cup ErrorNetworkErrors \cup ErrorWrappers

ErrInit ==
    /\ callOp = "none"
    /\ callArg \in ErrorValues
    /\ callRet = FALSE

CallIsUserNotFound ==
    /\ callOp = "none"
    /\ callOp' = "IsUserNotFound"
    /\ callRet' = IsUserNotFound(callArg)
    /\ UNCHANGED callArg

CallIsUnauthorized ==
    /\ callOp = "none"
    /\ callOp' = "IsUnauthorized"
    /\ callRet' = IsUnauthorized(callArg)
    /\ UNCHANGED callArg

CallIsTemporary ==
    /\ callOp = "none"
    /\ callOp' = "IsTemporary"
    /\ callRet' = IsTemporary(callArg)
    /\ UNCHANGED callArg

CallIsRateLimited ==
    /\ callOp = "none"
    /\ callOp' = "IsRateLimited"
    /\ callRet' = IsRateLimited(callArg)
    /\ UNCHANGED callArg

CallIsNetworkError ==
    /\ callOp = "none"
    /\ callOp' = "IsNetworkError"
    /\ callRet' = IsNetworkError(callArg)
    /\ UNCHANGED callArg

ErrSpecInit ==
    /\ ErrInit
    /\ client = NewAnonymous
    /\ now = 0
    /\ calls = [c \in Callers |-> Idle]
    /\ wire = {}

ErrNext ==
    \/ CallIsUserNotFound /\ UNCHANGED clientVars
    \/ CallIsUnauthorized /\ UNCHANGED clientVars
    \/ CallIsTemporary /\ UNCHANGED clientVars
    \/ CallIsRateLimited /\ UNCHANGED clientVars
    \/ CallIsNetworkError /\ UNCHANGED clientVars

ErrSpec == ErrSpecInit /\ [][ErrNext]_vars

----------------------------------------------------------------------------
(* Concurrent callers: ConcSpec is one Client shared by two goroutines,    *)
(* whose calls interleave at httpClient.Do.  The inputs are fewer than in  *)
(* Spec; the actions are the same.                                         *)

ConcCallers == {"c1", "c2"}
ConcClients == { New("test-token"), NewAnonymous }
ConcUsernames == {"", "al"}
ConcResponses ==
    { [StatusCode |-> StatusOK,
       Body |-> Body("{\"user\":\"al\",\"total_xp\":1600}", TRUE, "", "al", 1600)],
      [StatusCode |-> StatusCreated,
       Body |-> Body("{\"error\":\"\"}", TRUE, "", "", 0)],
      [StatusCode |-> StatusUnauthorized,
       Body |-> Body("{\"error\":\"boom\"}", TRUE, "boom", "", 0)],
      [StatusCode |-> StatusServerError,
       Body |-> Body("Service Unavailable", FALSE, "", "", 0)] }
ConcTransportErrors == { <<[type |-> "urlError", msg |-> "EOF"]>> }
ConcPulses(t) == { Pulse(AddDate(t, -PulseMaxAgeDays) - 1), Pulse(t) }

ConcInit ==
    /\ client \in ConcClients
    /\ now = 0
    /\ calls = [c \in ConcCallers |-> Idle]
    /\ wire = {}
    /\ callOp = "none"
    /\ callArg = 0
    /\ callRet = 0

ConcNext ==
    \/ \E c \in DOMAIN calls, username \in ConcUsernames :
           GetUserProfileCall(c, username) /\ UNCHANGED calcVars
    \/ \E c \in DOMAIN calls, err \in ConcTransportErrors :
           GetUserProfileTransportError(c, err) /\ UNCHANGED calcVars
    \/ \E c \in DOMAIN calls, resp \in ConcResponses :
           GetUserProfileReturn(c, resp) /\ UNCHANGED calcVars
    \/ \E c \in DOMAIN calls, pulse \in ConcPulses(now) :
           SendPulseCall(c, pulse) /\ UNCHANGED calcVars
    \/ \E c \in DOMAIN calls, err \in ConcTransportErrors :
           SendPulseTransportError(c, err) /\ UNCHANGED calcVars
    \/ \E c \in DOMAIN calls, resp \in ConcResponses :
           SendPulseReturn(c, resp) /\ UNCHANGED calcVars
    \/ Tick /\ UNCHANGED calcVars

ConcSpec == ConcInit /\ [][ConcNext]_vars

(* WideSpec is the calculator in float64, applied once to an int drawn at  *)
(* the start from levels and thresholds small and large.                   *)

WideInit ==
    /\ WideCalcInit
    /\ client = NewAnonymous
    /\ now = 0
    /\ calls = [c \in Callers |-> Idle]
    /\ wire = {}

WideNext ==
    \/ CallGetLevelF64 /\ UNCHANGED clientVars
    \/ CallGetLevelPercentageF64 /\ UNCHANGED clientVars
    \/ CallGetXpForLevelF64 /\ UNCHANGED clientVars
    \/ CallGetXpForNextLevelF64 /\ UNCHANGED clientVars

WideSpec == WideInit /\ [][WideNext]_vars

----------------------------------------------------------------------------
(* The properties.                                                         *)

\* caller c's call of op has returned
Returned(c, op) == calls[c].pc = "done" /\ calls[c].op = op

\* caller c's call got a response from the remote service
Answered(c, op) == Returned(c, op) /\ calls[c].resp # NoResponse

\* err is an *APIError, unwrapped
IsAPIError(err) == Len(err) = 1 /\ err[1].type = "APIError"

\* C1: the round-trip law of the calculator: for every level in 1..MaxLevel
\* (1000), the level of the XP that GetXpForLevel returns is that level.
C1_RoundTrip ==
    (callOp = "GetXpForLevel" /\ callArg \in 1 .. MaxLevel)
        => GetLevel(callRet) = callArg

C1_Witness ==
    /\ callOp = "GetXpForLevel"
    /\ callArg = 1000
    /\ callRet = 1600000000
    /\ GetLevel(callRet) = 1000

\* C2: a 429 answer to GetUserProfile or SendPulse yields an error that is
\* both rate-limited and temporary.
C2_RateLimitedIsTemporary ==
    \A c \in DOMAIN calls :
        \A op \in {"GetUserProfile", "SendPulse"} :
            (Answered(c, op) /\ calls[c].resp.StatusCode = 429)
                => /\ IsRateLimited(calls[c].ret.err)
                   /\ IsTemporary(calls[c].ret.err)

\* C3: SendPulse on a client with an empty credential returns
\* ErrUnauthorized and issues no request, whatever the pulse, a stale one
\* included.
C3_AnonymousSendPulse ==
    client.apiToken = ""
        => /\ \A c \in DOMAIN calls :
                  Returned(c, "SendPulse")
                      => /\ calls[c].ret.err = ErrUnauthorized
                         /\ calls[c].sent = 0
           /\ \A c \in DOMAIN calls : calls[c].op = "SendPulse" => calls[c].pc = "done"
           /\ \A r \in wire : r.method # "POST"

C3_Witness ==
    /\ client.apiToken = ""
    /\ \E c \in DOMAIN calls :
           /\ Returned(c, "SendPulse")
           /\ calls[c].pulse.CodedAt < calls[c].at - PulseMaxAgeDays * TicksPerDay
           /\ calls[c].ret.err = ErrUnauthorized
           /\ calls[c].sent = 0

\* C4: a POST to /api/my/pulses is issued only for a pulse coded at or after
\* seven days before the call, on a client with a credential; a credentialed
\* SendPulse of an older pulse returns ErrPulseTimestampTooOld and issues
\* nothing; a pulse coded exactly seven days before the call is not rejected.
C4_PulseSafety ==
    /\ \A r \in wire :
           r.method = "POST" => r.header[AuthHeader] # "" /\ client.apiToken # ""
    /\ \A c \in DOMAIN calls :
           LET f == calls[c]
               limit == f.at - PulseMaxAgeDays * TicksPerDay
           IN  f.op = "SendPulse"
                   => /\ f.sent >= 1
                          => /\ f.pulse.CodedAt >= limit
                             /\ client.apiToken # ""
                             /\ Request("POST", f.endpoint, SendPulseHeader(client),
                                        f.pulse) \in wire
                      /\ (client.apiToken # "" /\ f.pulse.CodedAt < limit)
                          => /\ f.pc = "done"
                             /\ f.ret.err = ErrPulseTimestampTooOld
                             /\ f.sent = 0
                      /\ (client.apiToken # "" /\ f.pulse.CodedAt = limit)
                          => f.ret.err # ErrPulseTimestampTooOld

C4_Witness ==
    \E c \in DOMAIN calls :
        /\ calls[c].op = "SendPulse"
        /\ calls[c].sent = 1
        /\ calls[c].pulse.CodedAt = calls[c].at - PulseMaxAgeDays * TicksPerDay
        /\ Request("POST", calls[c].endpoint, SendPulseHeader(client), calls[c].pulse)
               \in wire

\* C5: GetUserProfile of the empty username returns (nil, ErrEmptyUsername)
\* and issues no request, on every client.
C5_EmptyUsername ==
    \A c \in DOMAIN calls :
        (calls[c].op = "GetUserProfile" /\ calls[c].username = "")
            => /\ calls[c].pc = "done"
               /\ calls[c].ret = Return(<<>>, ErrEmptyUsername)
               /\ calls[c].sent = 0

C5_Witness ==
    \E c \in DOMAIN calls :
        /\ Returned(c, "GetUserProfile")
        /\ calls[c].username = ""
        /\ client.apiToken # ""
        /\ client.baseURL # DefaultBaseURL
        /\ calls[c].ret = Return(<<>>, ErrEmptyUsername)

\* C6: GetUserProfile answered with status s returns ErrUserNotFound for
\* 404, ErrUnauthorized for 401, ErrRateLimited for 429, for every other
\* s # 200 an APIError with StatusCode s and the requested URL as Endpoint,
\* and a profile only for 200.
C6_GetUserProfileStatus ==
    \A c \in DOMAIN calls :
        Answered(c, "GetUserProfile")
            => LET s == calls[c].resp.StatusCode
                   ret == calls[c].ret
               IN  /\ s = 404 => ret = Return(<<>>, ErrUserNotFound)
                   /\ s = 401 => ret = Return(<<>>, ErrUnauthorized)
                   /\ s = 429 => ret = Return(<<>>, ErrRateLimited)
                   /\ s \notin {200, 404, 401, 429}
                        => /\ ret.profile = <<>>
                           /\ IsAPIError(ret.err)
                           /\ ret.err[1].StatusCode = s
                           /\ ret.err[1].Endpoint = calls[c].endpoint
                           /\ \E r \in wire :
                                  r.method = "GET" /\ r.url = ret.err[1].Endpoint
                   /\ ret.profile # <<>> => s = 200 /\ ret.err = nil

C6_Witness ==
    \E c \in DOMAIN calls :
        /\ Answered(c, "GetUserProfile")
        /\ calls[c].resp.StatusCode = 503
        /\ IsAPIError(calls[c].ret.err)
        /\ calls[c].ret.err[1].StatusCode = 503
        /\ calls[c].ret.err[1].Endpoint = "http://127.0.0.1:8080/api/users/a%2Fb"

\* C7: SendPulse answered with status s returns nil for 201, ErrUnauthorized
\* for 401, ErrRateLimited for 429 and for every other s (200 and 404
\* included) an APIError with StatusCode s; only 201 is a success.
C7_SendPulseStatus ==
    \A c \in DOMAIN calls :
        Answered(c, "SendPulse")
            => LET s == calls[c].resp.StatusCode
                   err == calls[c].ret.err
               IN  /\ s = 201 => err = nil
                   /\ s = 401 => err = ErrUnauthorized
                   /\ s = 429 => err = ErrRateLimited
                   /\ s \notin {201, 401, 429}
                        => IsAPIError(err) /\ err[1].StatusCode = s
                   /\ err = nil => s = 201

C7_Witness ==
    \E c \in DOMAIN calls :
        /\ Answered(c, "SendPulse")
        /\ calls[c].resp.StatusCode = 200
        /\ IsAPIError(calls[c].ret.err)
        /\ calls[c].ret.err[1].StatusCode = 200

\* C8: a 404 answer to GetUserProfile yields an error for which
\* IsUserNotFound is true and IsTemporary is false.
C8_NotFoundClassified ==
    \A c \in DOMAIN calls :
        (Answered(c, "GetUserProfile") /\ calls[c].resp.StatusCode = 404)
            => /\ IsUserNotFound(calls[c].ret.err)
               /\ ~IsTemporary(calls[c].ret.err)

C8_Witness ==
    \E c \in DOMAIN calls :
        /\ Answered(c, "GetUserProfile")
        /\ calls[c].resp.StatusCode = 404
        /\ calls[c].ret.err # nil
        /\ IsUserNotFound(calls[c].ret.err)

\* C9: APIError.IsTemporary is true exactly for a StatusCode >= 500 or
\* = 429; so a response of status >= 500 (503, say) to either operation
\* yields an APIError err with err.IsTemporary() and IsTemporary(err).
C9_ServerErrorIsTemporary ==
    /\ \A s \in Statuses \cup {499, 501, 599} :
           APIErrorIsTemporary(NewAPIError(s, "", "")[1]) <=> (s >= 500 \/ s = 429)
    /\ \A c \in DOMAIN calls :
           \A op \in {"GetUserProfile", "SendPulse"} :
               (Answered(c, op) /\ calls[c].resp.StatusCode >= 500)
                   => /\ IsAPIError(calls[c].ret.err)
                      /\ APIErrorIsTemporary(calls[c].ret.err[1])
                      /\ IsTemporary(calls[c].ret.err)

C9_Witness ==
    \E c \in DOMAIN calls :
        /\ Answered(c, "SendPulse")
        /\ calls[c].resp.StatusCode = 503
        /\ IsAPIError(calls[c].ret.err)
        /\ IsTemporary(calls[c].ret.err)

\* C10: for every xp, negative, zero or positive, on a level threshold or
\* not, GetLevelPercentage(xp) lies between 0.0 and 1.0.
C10_PercentageInRange ==
    callOp = "GetLevelPercentage"
        => /\ callRet[2] > 0
           /\ 0 <= callRet[1]
           /\ callRet[1] <= callRet[2]

C10_Witness ==
    /\ callOp = "GetLevelPercentage"
    /\ callArg = 6399
    /\ callRet = <<4799, 4800>>


\* node i of the chain err is an APIError with status st
HasAPIError(err, st) ==
    \E i \in 1 .. Len(err) : err[i].type = "APIError" /\ err[i].StatusCode = st

\* C12: IsTemporary(err) is true exactly when err is or wraps an APIError
\* or a NetworkError whose own IsTemporary() is true: false for nil, for the
\* sentinels and for other errors, and true for a chain holding both kinds
\* whenever either one's IsTemporary() is true.
C12_IsTemporaryEither ==
    callOp = "IsTemporary"
        => callRet =
             \E i \in 1 .. Len(callArg) :
                 \/ /\ callArg[i].type = "APIError"
                    /\ (callArg[i].StatusCode >= 500 \/ callArg[i].StatusCode = 429)
                 \/ /\ callArg[i].type = "NetworkError"
                    /\ NetworkErrorIsTemporary(SubSeq(callArg, i, Len(callArg)))

\* C13: IsUserNotFound, IsUnauthorized and IsRateLimited are true exactly
\* for an error that is (or wraps) the paired sentinel or an APIError with
\* the paired status 404, 401, 429, and false for nil, for an APIError of
\* another status, for the other sentinels and for unrelated errors.
C13_PairedPredicates ==
    /\ callOp = "IsUserNotFound"
         => callRet = (\/ \E i \in 1 .. Len(callArg) : callArg[i] = ErrUserNotFound[1]
                       \/ HasAPIError(callArg, 404))
    /\ callOp = "IsUnauthorized"
         => callRet = (\/ \E i \in 1 .. Len(callArg) : callArg[i] = ErrUnauthorized[1]
                       \/ HasAPIError(callArg, 401))
    /\ callOp = "IsRateLimited"
         => callRet = (\/ \E i \in 1 .. Len(callArg) : callArg[i] = ErrRateLimited[1]
                       \/ HasAPIError(callArg, 429))

C13_Witness ==
    /\ callOp = "IsUnauthorized"
    /\ callArg = NewAPIError(401, "Server error", "")
    /\ callRet = TRUE

\* caller c's call issued its request and httpClient.Do failed
TransportFailed(c, op) ==
    Returned(c, op) /\ calls[c].sent = 1 /\ calls[c].resp = NoResponse

\* C14: when the transport fails, GetUserProfile returns a NetworkError of
\* Operation "GET request" and SendPulse one of Operation "POST request",
\* with the endpoint URL and the cause; IsNetworkError is true of it whatever
\* the cause says, IsUserNotFound, IsUnauthorized and IsRateLimited are false.
C14_TransportFailure ==
    \A c \in DOMAIN calls :
        \A op \in {"GetUserProfile", "SendPulse"} :
            TransportFailed(c, op)
                => LET err == calls[c].ret.err
                   IN  /\ err # nil
                       /\ err[1].type = "NetworkError"
                       /\ err[1].Operation =
                              (IF op = "GetUserProfile" THEN "GET request"
                                                        ELSE "POST request")
                       /\ err[1].URL = calls[c].endpoint
                       /\ \E r \in wire : r.url = err[1].URL
                       /\ Tail(err) \in TransportErrors
                       /\ IsNetworkError(err)
                       /\ ~IsUserNotFound(err)
                       /\ ~IsUnauthorized(err)
                       /\ ~IsRateLimited(err)

C14_Witness ==
    \E c \in DOMAIN calls :
        /\ TransportFailed(c, "SendPulse")
        /\ calls[c].ret.err[1].Operation = "POST request"
        /\ ErrorText(Tail(calls[c].ret.err)) = "EOF"
        /\ ~NetworkErrorIsTemporary(calls[c].ret.err)
        /\ IsNetworkError(calls[c].ret.err)

\* the checks of caller c's call that come before any request fail
FailsValidation(c) ==
    \/ calls[c].op = "GetUserProfile" /\ calls[c].username = ""
    \/ calls[c].op = "SendPulse" /\ client.apiToken = ""
    \/ /\ calls[c].op = "SendPulse"
       /\ calls[c].pulse.CodedAt < calls[c].at - PulseMaxAgeDays * TicksPerDay

\* C15: a call of GetUserProfile or SendPulse issues at most one request
\* and then returns; nothing is issued again after any outcome, temporary
\* ones included; a call that fails validation issues none.
C15_AtMostOneRequest ==
    /\ [](\A c \in DOMAIN calls :
            /\ calls[c].sent <= 1
            /\ calls[c].pc = "waiting" => calls[c].sent = 1
            /\ FailsValidation(c) => calls[c].pc = "done" /\ calls[c].sent = 0)
    /\ [][\A c \in DOMAIN calls :
            calls[c].pc = "waiting"
                => /\ calls'[c].pc \in {"waiting", "done"}
                   /\ calls'[c].sent = calls[c].sent
                   /\ calls'[c] # calls[c] => calls'[c].pc = "done" /\ wire' = wire]_vars

C15_Witness ==
    \E c \in DOMAIN calls :
        /\ Answered(c, "GetUserProfile")
        /\ calls[c].resp.StatusCode = 503
        /\ IsTemporary(calls[c].ret.err)
        /\ calls[c].sent = 1
        /\ Cardinality(wire) = 1

\* the sentinel errors of the package
Sentinels ==
    { ErrUserNotFound, ErrUnauthorized, ErrPulseTimestampTooOld, ErrEmptyUsername,
      ErrNetworkError, ErrInvalidResponse, ErrRateLimited }

\* C16: every non-nil error GetUserProfile or SendPulse returns, on every
\* path, is or wraps a sentinel error, an APIError or a NetworkError.
C16_ErrorsAreClassifiable ==
    \A c \in DOMAIN calls :
        (calls[c].pc = "done" /\ calls[c].ret.err # nil)
            => \E i \in 1 .. Len(calls[c].ret.err) :
                   LET e == calls[c].ret.err[i]
                   IN  \/ e.type \in {"APIError", "NetworkError"}
                       \/ \E s \in Sentinels : e = s[1]

\* caller c's call was answered and returned an APIError
ReturnedAPIError(c) ==
    /\ calls[c].pc = "done"
    /\ calls[c].resp # NoResponse
    /\ IsAPIError(calls[c].ret.err)

\* the body is a JSON object with an "error" member
HasErrorField(body) == body.object /\ Contains(body.raw, "\"error\":")

\* C17 as claimed: the Message of an APIError made from a response is the
\* body's error field whenever the body is JSON with that field, the empty
\* string included, and the raw body otherwise.
C17_MessageFromErrorField ==
    \A c \in DOMAIN calls :
        ReturnedAPIError(c)
            => calls[c].ret.err[1].Message =
                   (IF HasErrorField(calls[c].resp.Body)
                    THEN calls[c].resp.Body.error
                    ELSE calls[c].resp.Body.raw)

\* C17 as amended: the Message of an APIError made from a response is the
\* body's error field when the body is JSON with a non-empty error field,
\* and the raw body otherwise, also when the field is the empty string.
C17_MessageFromNonEmptyErrorField ==
    \A c \in DOMAIN calls :
        ReturnedAPIError(c)
            => calls[c].ret.err[1].Message =
                   (IF /\ HasErrorField(calls[c].resp.Body)
                       /\ calls[c].resp.Body.error # ""
                    THEN calls[c].resp.Body.error
                    ELSE calls[c].resp.Body.raw)

C17_Witness ==
    /\ \E c \in DOMAIN calls :
           /\ ReturnedAPIError(c)
           /\ calls[c].op = "SendPulse"
           /\ calls[c].resp.Body.raw = "{\"error\":\"\"}"
           /\ calls[c].ret.err[1].Message = "{\"error\":\"\"}"

\* what httpClient.Do gave the call of frame f: the response, or the cause
\* of the NetworkError when it failed (<<>> when the call never reached it)
DoOutcome(f) ==
    [resp |-> f.resp,
     cause |-> IF f.resp = NoResponse /\ f.sent > 0 /\ Len(f.ret.err) > 1
               THEN SubSeq(f.ret.err, 2, Len(f.ret.err))
               ELSE <<>>]

\* two finished calls with the same arguments, clock and remote outcome
SameCall(f, g) ==
    /\ f.pc = "done" /\ g.pc = "done"
    /\ f.op = g.op
    /\ f.username = g.username
    /\ f.pulse = g.pulse
    /\ f.at = g.at
    /\ DoOutcome(f) = DoOutcome(g)

\* C18: no step of any interleaving of GetUserProfile and SendPulse calls of
\* two callers changes the Client's baseURL or apiToken, and two calls with
\* the same arguments, clock and remote outcome return the same result and
\* built the same request, whatever the other caller did in between.
C18_ClientImmutable ==
    /\ [](\A c, d \in DOMAIN calls :
              SameCall(calls[c], calls[d])
                  => /\ calls[c].ret = calls[d].ret
                     /\ calls[c].endpoint = calls[d].endpoint
                     /\ calls[c].sent = calls[d].sent)
    /\ [][client' = client]_vars

C18_Witness ==
    /\ client = New("test-token")
    /\ calls["c1"].pc = "waiting"
    /\ calls["c1"].op = "GetUserProfile"
    /\ calls["c2"].pc = "done"
    /\ calls["c2"].op = "SendPulse"
    /\ calls["c2"].sent = 1
    /\ calls["c2"].resp.StatusCode = StatusCreated
    /\ calls["c2"].ret.err = nil
    /\ Cardinality(wire) = 2

\* C11: GetXpForLevel(level) is the least xp of the level: for level >= 1 it
\* is 1600 * level^2, GetLevel of it is at least level and GetLevel of one xp
\* less is below level; for level <= 0 it is 0.
C11_MinimumXpOfLevel ==
    (callOp = "GetXpForLevel")
        => IF callArg.neg \/ callArg.mag = <<>>
           THEN callRet = Int64Of(0)
           ELSE /\ callRet = Int64(FALSE, BigMul(BigMul(BigOf(LevelFactorInv * LevelFactorInv),
                                                        callArg.mag), callArg.mag))
                /\ ~Int64Less(GetLevelF64(callRet), callArg)
                /\ Int64Less(GetLevelF64(Int64Sub(callRet, Int64Of(1))), callArg)

\* C19: for xp >= 0, GetXpForLevel(GetLevel(xp)) <= xp
\* < GetXpForLevel(GetLevel(xp) + 1) = GetXpForNextLevel(xp); so in
\* GetLevelPercentage the numerator is not negative, the denominator is
\* positive and neither "return 1.0" nor a clamp is taken.
C19_LevelBracket ==
    (callOp = "GetLevelPercentage" /\ ~callArg.neg)
        => \A currentLevel \in { GetLevelF64(callArg) } :
           \A currentLevelXP \in { GetXpForLevelF64(currentLevel) } :
           \A nextLevelXP \in { GetXpForLevelF64(Int64Add(currentLevel, Int64Of(1))) } :
           \A xpInCurrentLevel \in { Int64Sub(callArg, currentLevelXP) } :
           \A xpNeededForNextLevel \in { Int64Sub(nextLevelXP, currentLevelXP) } :
               /\ ~Int64Less(callArg, currentLevelXP)
               /\ Int64Less(callArg, nextLevelXP)
               /\ nextLevelXP = GetXpForNextLevelF64(callArg)
               /\ ~xpInCurrentLevel.neg
               /\ Int64Less(Int64Of(0), xpNeededForNextLevel)
               /\ \A percentage \in { F64Div(Float64(xpInCurrentLevel),
                                              Float64(xpNeededForNextLevel)) } :
                      /\ ~F64Less(percentage, ZeroF64)
                      /\ ~F64Less(OneF64, percentage)
                      /\ callRet = percentage

====
